---- MODULE Spec2Model ----
(***************************************************************************)
(* State machine of the Tic-Tac-Toe component App (react_frontend/src/     *)
(* App.js).  The component's useState cells are the variables; each event  *)
(* handler is one action.  A handler runs in the closure of the latest     *)
(* render, and the render it triggers (with the cleanup and re-run of the  *)
(* computer-move effect) completes before the next event is dispatched, so *)
(* handler + render + effect is one atomic step.  The callback of the      *)
(* computer-move timer runs in the closure of the render that scheduled    *)
(* it: the pending timeout carries the board and mode it captured.         *)
(*                                                                         *)
(* Array index idx of the source is position idx + 1 of a TLA+ sequence.   *)
(***************************************************************************)
EXTENDS Integers, Sequences, FiniteSets, TLC

VARIABLES
    mode,        \* useState: game mode
    board,       \* useState: the 9 squares
    xIsNext,     \* useState: TRUE when X moves next
    status,      \* useState: status message
    gameStarted, \* useState
    gameOver,    \* useState
    score,       \* useState: [X, O, Draw]
    timeouts,    \* pending setTimeout callbacks, each with its captured closure
    last,        \* observer: the last event dispatched and what it met
    played       \* observer: the events so far, while they follow a scenario

engineVars == <<mode, board, xIsNext, status, gameStarted, gameOver, score>>
vars == <<mode, board, xIsNext, status, gameStarted, gameOver, score,
          timeouts, last, played>>

\* Number of games that may be completed in one session (model bound).
MaxGames == 2

PLAYER_X == "X"
PLAYER_O == "O"
TWO_PLAYER == "TWO_PLAYER"
SINGLE_PLAYER == "SINGLE_PLAYER"
MODES == {TWO_PLAYER, SINGLE_PLAYER}
\* A value outside the MODES enum, for callers that pass one to startGame.
InvalidModes == {"HARD_MODE"}
\* JavaScript null (an empty square).
null == "null"
\* The indices the rendered cell buttons pass to handleSquareClick.
Indices == 0 .. 8

getInitialBoard == [i \in 1 .. 9 |-> null]

\* The status messages (the trailing emoji of three of them is left out).
MsgChoose == "Choose a mode & start the game."
MsgYourMoveX == "Your move: X"
MsgYourMoveYou == "Your move: X (You)"
MsgResetYou == "Game reset. Your move: X (You)"
MsgResetX == "Game reset. X's turn"
MsgYouWin == "You win!"
MsgComputerWins == "Computer wins!"
MsgPlayerXWins == "Player X wins!"
MsgPlayerOWins == "Player O wins!"
MsgDraw == "It's a draw!"
MsgThinking == "Computer is thinking..."
MsgXTurn == "X's turn"
MsgOTurn == "O's turn"

\* The eight lines, in the order calculateWinner and boardWinnerSquares try them.
lines ==
    << <<0, 1, 2>>, <<3, 4, 5>>, <<6, 7, 8>>,
       <<0, 3, 6>>, <<1, 4, 7>>, <<2, 5, 8>>,
       <<0, 4, 8>>, <<2, 4, 6>> >>

\* The test of the loop body: squares[a] && squares[a] === squares[b] && ... [c]
lineComplete(squares, line) ==
    /\ squares[line[1] + 1] # null
    /\ squares[line[1] + 1] = squares[line[2] + 1]
    /\ squares[line[1] + 1] = squares[line[3] + 1]

\* Index (1..8) of the first complete line, 0 when there is none.
firstComplete(squares) ==
    IF \E k \in 1 .. 8 : lineComplete(squares, lines[k])
    THEN CHOOSE k \in 1 .. 8 :
            /\ lineComplete(squares, lines[k])
            /\ \A j \in 1 .. (k - 1) : ~lineComplete(squares, lines[j])
    ELSE 0

\* Mutant: the table of lines lacks its first row.
calculateWinner_noTopRow(squares) ==
    IF \E k \in 2 .. 8 : lineComplete(squares, lines[k])
    THEN LET k == CHOOSE k \in 2 .. 8 :
                     /\ lineComplete(squares, lines[k])
                     /\ \A j \in 2 .. (k - 1) : ~lineComplete(squares, lines[j])
         IN  squares[lines[k][1] + 1]
    ELSE null

\* Mutant: the loop test compares only the first two squares of a line.
calculateWinner_twoInLine(squares) ==
    IF \E k \in 1 .. 8 : /\ squares[lines[k][1] + 1] # null
                         /\ squares[lines[k][1] + 1] = squares[lines[k][2] + 1]
    THEN LET k == CHOOSE k \in 1 .. 8 :
                     /\ squares[lines[k][1] + 1] # null
                     /\ squares[lines[k][1] + 1] = squares[lines[k][2] + 1]
                     /\ \A j \in 1 .. (k - 1) :
                            ~(/\ squares[lines[j][1] + 1] # null
                              /\ squares[lines[j][1] + 1] = squares[lines[j][2] + 1])
         IN  squares[lines[k][1] + 1]
    ELSE null

calculateWinner(squares) ==
    LET k == firstComplete(squares)
    IN  IF k = 0 THEN null ELSE squares[lines[k][1] + 1]

boardWinnerSquares(squares) ==
    LET k == firstComplete(squares)
    IN  IF k = 0 THEN <<>> ELSE lines[k]

\* newBoard.every((cell) => cell !== null)
everyCellFilled(newBoard) == \A i \in 1 .. Len(newBoard) : newBoard[i] # null

\* Mutant: the effect returns no cleanup, so an earlier timeout stays pending.
useEffect_noCleanup(prev, m, b, started, over, xNext) ==
    prev \cup
    (IF m = SINGLE_PLAYER /\ started /\ ~over /\ ~xNext
     THEN {[board |-> b, mode |-> m]}
     ELSE {})

\* Mutant: the effect's condition lacks !gameOver.
useEffect_noGameOverCheck(prev, m, b, started, over, xNext) ==
    IF m = SINGLE_PLAYER /\ started /\ ~xNext
    THEN {[board |-> b, mode |-> m]}
    ELSE {}

\* The computer-move effect as run when a render commits with the given state:
\* the cleanup of the previous run clears the timeout it scheduled (prev), and
\* the body schedules a new one when its condition holds.  Every handler that
\* sets state calls setBoard with a fresh array, so the dependency list always
\* differs and the effect re-runs on each such render.
useEffect(prev, m, b, started, over, xNext) ==
    IF m = SINGLE_PLAYER /\ started /\ ~over /\ ~xNext
    THEN {[board |-> b, mode |-> m]}
    ELSE {}

\* Mutant: the full-board test is missing, so a full board without a line
\* continues the game.
handleBoardUpdate_noDrawCheck(newBoard, xTurnNext, m) ==
    LET winner == calculateWinner(newBoard)
    IN  IF winner # null
        THEN /\ status' = (IF m = SINGLE_PLAYER
                           THEN (IF winner = PLAYER_X THEN MsgYouWin
                                 ELSE MsgComputerWins)
                           ELSE (IF winner = PLAYER_X THEN MsgPlayerXWins
                                 ELSE MsgPlayerOWins))
             /\ gameOver' = TRUE
             /\ score' = [score EXCEPT ![winner] = @ + 1]
             /\ xIsNext' = xIsNext
        ELSE /\ status' = (IF m = SINGLE_PLAYER
                           THEN (IF xTurnNext THEN MsgYourMoveYou ELSE MsgThinking)
                           ELSE (IF xTurnNext THEN MsgXTurn ELSE MsgOTurn))
             /\ xIsNext' = xTurnNext
             /\ gameOver' = gameOver
             /\ score' = score

\* Mutant: the full-board test comes before the winner test.
handleBoardUpdate_drawFirst(newBoard, xTurnNext, m) ==
    LET winner == calculateWinner(newBoard)
    IN  IF everyCellFilled(newBoard)
        THEN /\ status' = MsgDraw
             /\ gameOver' = TRUE
             /\ score' = [score EXCEPT !.Draw = @ + 1]
             /\ xIsNext' = xIsNext
        ELSE IF winner # null
        THEN /\ status' = (IF m = SINGLE_PLAYER
                           THEN (IF winner = PLAYER_X THEN MsgYouWin
                                 ELSE MsgComputerWins)
                           ELSE (IF winner = PLAYER_X THEN MsgPlayerXWins
                                 ELSE MsgPlayerOWins))
             /\ gameOver' = TRUE
             /\ score' = [score EXCEPT ![winner] = @ + 1]
             /\ xIsNext' = xIsNext
        ELSE /\ status' = (IF m = SINGLE_PLAYER
                           THEN (IF xTurnNext THEN MsgYourMoveYou ELSE MsgThinking)
                           ELSE (IF xTurnNext THEN MsgXTurn ELSE MsgOTurn))
             /\ xIsNext' = xTurnNext
             /\ gameOver' = gameOver
             /\ score' = score

\* Mutant: setXIsNext(xTurnNext) is called on every branch.
handleBoardUpdate_flipsAlways(newBoard, xTurnNext, m) ==
    LET winner == calculateWinner(newBoard)
    IN  IF winner # null
        THEN /\ status' = (IF m = SINGLE_PLAYER
                           THEN (IF winner = PLAYER_X THEN MsgYouWin
                                 ELSE MsgComputerWins)
                           ELSE (IF winner = PLAYER_X THEN MsgPlayerXWins
                                 ELSE MsgPlayerOWins))
             /\ gameOver' = TRUE
             /\ score' = [score EXCEPT ![winner] = @ + 1]
             /\ xIsNext' = xTurnNext
        ELSE IF everyCellFilled(newBoard)
        THEN /\ status' = MsgDraw
             /\ gameOver' = TRUE
             /\ score' = [score EXCEPT !.Draw = @ + 1]
             /\ xIsNext' = xTurnNext
        ELSE /\ status' = (IF m = SINGLE_PLAYER
                           THEN (IF xTurnNext THEN MsgYourMoveYou ELSE MsgThinking)
                           ELSE (IF xTurnNext THEN MsgXTurn ELSE MsgOTurn))
             /\ xIsNext' = xTurnNext
             /\ gameOver' = gameOver
             /\ score' = score

\* handleBoardUpdate, called from a closure whose mode is m.
handleBoardUpdate(newBoard, xTurnNext, m) ==
    LET winner == calculateWinner(newBoard)
    IN  IF winner # null
        THEN /\ status' = (IF m = SINGLE_PLAYER
                           THEN (IF winner = PLAYER_X THEN MsgYouWin
                                 ELSE MsgComputerWins)
                           ELSE (IF winner = PLAYER_X THEN MsgPlayerXWins
                                 ELSE MsgPlayerOWins))
             /\ gameOver' = TRUE
             /\ score' = [score EXCEPT ![winner] = @ + 1]
             /\ xIsNext' = xIsNext
        ELSE IF everyCellFilled(newBoard)
        THEN /\ status' = MsgDraw
             /\ gameOver' = TRUE
             /\ score' = [score EXCEPT !.Draw = @ + 1]
             /\ xIsNext' = xIsNext
        ELSE /\ status' = (IF m = SINGLE_PLAYER
                           THEN (IF xTurnNext THEN MsgYourMoveYou ELSE MsgThinking)
                           ELSE (IF xTurnNext THEN MsgXTurn ELSE MsgOTurn))
             /\ xIsNext' = xTurnNext
             /\ gameOver' = gameOver
             /\ score' = score

\* Mutant: startGame without setGameOver(false).
startGame_noGameOverReset(selectedMode) ==
    /\ mode' = selectedMode
    /\ board' = getInitialBoard
    /\ gameStarted' = TRUE
    /\ xIsNext' = TRUE
    /\ gameOver' = gameOver
    /\ status' = (IF selectedMode = SINGLE_PLAYER THEN MsgYourMoveYou
                  ELSE MsgYourMoveX)
    /\ score' = score
    /\ timeouts' = useEffect(timeouts, mode', board', gameStarted', gameOver', xIsNext')

startGame(selectedMode) ==
    /\ mode' = selectedMode
    /\ board' = getInitialBoard
    /\ gameStarted' = TRUE
    /\ xIsNext' = TRUE
    /\ gameOver' = FALSE
    /\ status' = (IF selectedMode = SINGLE_PLAYER THEN MsgYourMoveYou
                  ELSE MsgYourMoveX)
    /\ score' = score
    /\ timeouts' = useEffect(timeouts, mode', board', gameStarted', gameOver', xIsNext')

\* Mutant: restartGame without setXIsNext(true).
restartGame_noTurnReset ==
    /\ board' = getInitialBoard
    /\ gameOver' = FALSE
    /\ xIsNext' = xIsNext
    /\ status' = (IF mode = SINGLE_PLAYER THEN MsgResetYou ELSE MsgResetX)
    /\ UNCHANGED <<mode, gameStarted, score>>
    /\ timeouts' = useEffect(timeouts, mode', board', gameStarted', gameOver', xIsNext')

\* Mutant: restartGame also clears the score.
restartGame_resetsScore ==
    /\ board' = getInitialBoard
    /\ gameOver' = FALSE
    /\ xIsNext' = TRUE
    /\ status' = (IF mode = SINGLE_PLAYER THEN MsgResetYou ELSE MsgResetX)
    /\ score' = [X |-> 0, O |-> 0, Draw |-> 0]
    /\ UNCHANGED <<mode, gameStarted>>
    /\ timeouts' = useEffect(timeouts, mode', board', gameStarted', gameOver', xIsNext')

restartGame ==
    /\ board' = getInitialBoard
    /\ gameOver' = FALSE
    /\ xIsNext' = TRUE
    /\ status' = (IF mode = SINGLE_PLAYER THEN MsgResetYou ELSE MsgResetX)
    /\ UNCHANGED <<mode, gameStarted, score>>
    /\ timeouts' = useEffect(timeouts, mode', board', gameStarted', gameOver', xIsNext')

\* The accepted path of handleSquareClick: newBoard, setBoard, handleBoardUpdate.
placeMove(idx) ==
    LET newBoard == [board EXCEPT ![idx + 1] =
                         IF xIsNext THEN PLAYER_X ELSE PLAYER_O]
    IN  /\ board' = newBoard
        /\ handleBoardUpdate(newBoard, ~xIsNext, mode)
        /\ UNCHANGED <<mode, gameStarted>>
        /\ timeouts' = useEffect(timeouts, mode', board', gameStarted',
                                 gameOver', xIsNext')

\* Mutant: the first guard lacks gameOver.
handleSquareClick_noGameOverCheck(idx) ==
    IF ~gameStarted \/ board[idx + 1] # null
    THEN UNCHANGED <<engineVars, timeouts>>
    ELSE IF mode = SINGLE_PLAYER /\ ~xIsNext
    THEN UNCHANGED <<engineVars, timeouts>>
    ELSE placeMove(idx)

\* Mutant: the first guard lacks board[idx].
handleSquareClick_noOccupiedCheck(idx) ==
    IF ~gameStarted \/ gameOver
    THEN UNCHANGED <<engineVars, timeouts>>
    ELSE IF mode = SINGLE_PLAYER /\ ~xIsNext
    THEN UNCHANGED <<engineVars, timeouts>>
    ELSE placeMove(idx)

\* Mutant: the "not your turn" guard is missing.
handleSquareClick_noTurnCheck(idx) ==
    IF ~gameStarted \/ board[idx + 1] # null \/ gameOver
    THEN UNCHANGED <<engineVars, timeouts>>
    ELSE placeMove(idx)

handleSquareClick(idx) ==
    IF ~gameStarted \/ board[idx + 1] # null \/ gameOver
    THEN UNCHANGED <<engineVars, timeouts>>
    ELSE IF mode = SINGLE_PLAYER /\ ~xIsNext
    THEN UNCHANGED <<engineVars, timeouts>>
    ELSE placeMove(idx)

\* handleSquareClick for any index idx >= 0, with JavaScript's array rules:
\* reading past the end of the array yields undefined (falsy, so both guards
\* pass), and writing at idx >= length grows the array, the squares skipped
\* reading as undefined afterwards.  On 0 .. 8 it is handleSquareClick.
undefined == "undefined"

readAt(b, idx) == IF idx + 1 \in 1 .. Len(b) THEN b[idx + 1] ELSE undefined

writeAt(b, idx, v) ==
    [i \in 1 .. (IF idx + 1 > Len(b) THEN idx + 1 ELSE Len(b)) |->
        IF i = idx + 1 THEN v
        ELSE IF i <= Len(b) THEN b[i]
        ELSE undefined]

handleSquareClickAny(idx) ==
    IF ~gameStarted \/ readAt(board, idx) \notin {null, undefined} \/ gameOver
    THEN UNCHANGED <<engineVars, timeouts>>
    ELSE IF mode = SINGLE_PLAYER /\ ~xIsNext
    THEN UNCHANGED <<engineVars, timeouts>>
    ELSE LET newBoard == writeAt(board, idx,
                                 IF xIsNext THEN PLAYER_X ELSE PLAYER_O)
         IN  /\ board' = newBoard
             /\ handleBoardUpdate(newBoard, ~xIsNext, mode)
             /\ UNCHANGED <<mode, gameStarted>>
             /\ timeouts' = useEffect(timeouts, mode', board', gameStarted',
                                      gameOver', xIsNext')

\* The timer callback of closure t: makeAIMove over the board t captured.
makeAIMove(t) ==
    LET available == {i \in 0 .. 8 : t.board[i + 1] = null}
    IN  IF available = {}
        THEN /\ UNCHANGED engineVars
             /\ timeouts' = timeouts \ {t}
        ELSE \E move \in available :
                LET newBoard == [t.board EXCEPT ![move + 1] = PLAYER_O]
                IN  /\ board' = newBoard
                    /\ handleBoardUpdate(newBoard, TRUE, t.mode)
                    /\ UNCHANGED <<mode, gameStarted>>
                    /\ timeouts' = useEffect(timeouts \ {t}, mode', board',
                                             gameStarted', gameOver', xIsNext')

\* makeAIMove with the random choice of line 104 replaced by the deterministic
\* policy of the specification's testable properties: the lowest empty index.
makeAIMoveLowest(t) ==
    LET available == {i \in 0 .. 8 : t.board[i + 1] = null}
    IN  IF available = {}
        THEN /\ UNCHANGED engineVars
             /\ timeouts' = timeouts \ {t}
        ELSE LET move == CHOOSE i \in available : \A j \in available : i <= j
                 newBoard == [t.board EXCEPT ![move + 1] = PLAYER_O]
             IN  /\ board' = newBoard
                 /\ handleBoardUpdate(newBoard, TRUE, t.mode)
                 /\ UNCHANGED <<mode, gameStarted>>
                 /\ timeouts' = useEffect(timeouts \ {t}, mode', board',
                                          gameStarted', gameOver', xIsNext')

----
\* Observers.

Event(op, idx, m) == [op |-> op, idx |-> idx, mode |-> m]
EvStart(m) == Event("start", -1, m)
EvRestart == Event("restart", -1, "")
EvClick(idx) == Event("click", idx, "")
EvTimer == Event("timer", -1, "")
OffScript == << Event("off", -1, "") >>

\* Scenario A of the specification's testable properties.
ScenarioA ==
    << EvStart(TWO_PLAYER), EvClick(0), EvClick(3), EvClick(1), EvClick(4),
       EvClick(2) >>

\* Scenario C: restart after scenario A.
ScenarioC == Append(ScenarioA, EvRestart)

\* Scenario B: a two-player game clicked through the squares 0, 1, ..., 8.
ScenarioB ==
    << EvStart(TWO_PLAYER), EvClick(0), EvClick(1), EvClick(2), EvClick(3),
       EvClick(4), EvClick(5), EvClick(6), EvClick(7), EvClick(8) >>

\* Scenario D: the human clicks of a single-player game, squares 0 and 2.
ScenarioD == << EvStart(SINGLE_PLAYER), EvClick(0), EvClick(2) >>

Scenarios == {ScenarioA, ScenarioB, ScenarioC, ScenarioD}

IsPrefix(s, t) == Len(s) <= Len(t) /\ SubSeq(t, 1, Len(s)) = s

Track(e) ==
    played' = IF \E s \in Scenarios : IsPrefix(Append(played, e), s)
              THEN Append(played, e)
              ELSE OffScript

\* What the last event was and met: m = the mode passed to startGame ("" for
\* the other events); accepted = a start, a restart or a move that wrote the
\* board; occupied = the clicked square was taken; pending = a timeout was
\* pending when the event was dispatched.
Observe(op, m, occ) ==
    last' = [op |-> op, mode |-> m,
             accepted |-> (board' # board \/ op \in {"start", "restart"}),
             occupied |-> occ, pending |-> (timeouts # {})]

ScoreTotal == score.X + score.O + score.Draw

Init ==
    /\ mode = TWO_PLAYER
    /\ board = getInitialBoard
    /\ xIsNext = TRUE
    /\ status = MsgChoose
    /\ gameStarted = FALSE
    /\ gameOver = FALSE
    /\ score = [X |-> 0, O |-> 0, Draw |-> 0]
    /\ timeouts = {}
    /\ last = [op |-> "init", mode |-> "", accepted |-> FALSE,
               occupied |-> FALSE, pending |-> FALSE]
    /\ played = <<>>

\* A new game is begun only while fewer than MaxGames games are complete.
Start(m) ==
    /\ ScoreTotal < MaxGames
    /\ startGame(m)
    /\ Observe("start", m, FALSE)
    /\ Track(EvStart(m))

Restart ==
    /\ ScoreTotal < MaxGames
    /\ restartGame
    /\ Observe("restart", "", FALSE)
    /\ Track(EvRestart)

Click(idx) ==
    /\ handleSquareClick(idx)
    /\ Observe("click", "", board[idx + 1] # null)
    /\ Track(EvClick(idx))

Timeout(t) ==
    /\ makeAIMove(t)
    /\ Observe("timer", "", FALSE)
    /\ Track(EvTimer)

Next ==
    \/ \E m \in MODES : Start(m)
    \/ Restart
    \/ \E idx \in Indices : Click(idx)
    \/ \E t \in timeouts : Timeout(t)

Spec == Init /\ [][Next]_vars

\* The timer is a one-shot browser timeout of 600 ms: a pending timeout that
\* is not cleared does fire.
SpecFair == Spec /\ WF_vars(\E t \in timeouts : Timeout(t))

\* The machine with the lowest-empty-index opponent.  The firing of the timer
\* is no human event: it leaves the record of the events played as it is.
TimeoutLowest(t) ==
    /\ makeAIMoveLowest(t)
    /\ Observe("timer", "", FALSE)
    /\ UNCHANGED played

NextLowest ==
    \/ \E m \in MODES : Start(m)
    \/ Restart
    \/ \E idx \in Indices : Click(idx)
    \/ \E t \in timeouts : TimeoutLowest(t)

SpecLowest == Init /\ [][NextLowest]_vars

\* The same machine with callers that may pass handleSquareClick an index
\* outside 0 .. 8.
OutsideIndices == {9}

ClickAny(idx) ==
    /\ handleSquareClickAny(idx)
    /\ Observe("click", "", readAt(board, idx) \notin {null, undefined})
    /\ Track(EvClick(idx))

NextAnyIndex ==
    \/ Next
    \/ \E idx \in OutsideIndices : ClickAny(idx)

SpecAnyIndex == Init /\ [][NextAnyIndex]_vars

\* Win detection as a function of its input: the board is any array of nine
\* cells, and the only step applies handleBoardUpdate (hence calculateWinner)
\* to it, once.
Cells == {null, PLAYER_X, PLAYER_O}
AllBoards == [1 .. 9 -> Cells]

InitDetect ==
    /\ board \in AllBoards
    /\ mode = TWO_PLAYER
    /\ xIsNext = TRUE
    /\ status = MsgYourMoveX
    /\ gameStarted = TRUE
    /\ gameOver = FALSE
    /\ score = [X |-> 0, O |-> 0, Draw |-> 0]
    /\ timeouts = {}
    /\ last = [op |-> "init", mode |-> "", accepted |-> FALSE,
               occupied |-> FALSE, pending |-> FALSE]
    /\ played = OffScript

Resolve ==
    /\ last.op = "init"
    /\ handleBoardUpdate(board, ~xIsNext, mode)
    /\ UNCHANGED <<board, mode, gameStarted, timeouts, played>>
    /\ Observe("resolve", "", FALSE)

NextDetect == Resolve

SpecDetect == InitDetect /\ [][NextDetect]_vars

\* The same machine with callers that may pass startGame a value outside MODES.
NextAnyMode ==
    \/ Next
    \/ \E m \in InvalidModes : Start(m)

SpecAnyMode == Init /\ [][NextAnyMode]_vars

----
\* Claims.

ScoreKeys == {"X", "O", "Draw"}
ZeroScore == [X |-> 0, O |-> 0, Draw |-> 0]
IsMove(l) == l.op \in {"click", "timer"}
IsReset(l) == l.op \in {"start", "restart"}

\* board2 is board1 with exactly one empty square turned into symbol s.
PlusOne(board1, board2, s) ==
    \E i \in 1 .. 9 :
        /\ board1[i] = null
        /\ board2 = [board1 EXCEPT ![i] = s]

\* C1: in the step where a game becomes over exactly one of the three
\* counters grows, by exactly 1; in every other step (rejected clicks, start,
\* restart, moves that leave the game in progress) the score is unchanged.
C1_ScoreOncePerGame ==
    [][IF ~gameOver /\ gameOver'
       THEN \E k \in ScoreKeys : score' = [score EXCEPT ![k] = @ + 1]
       ELSE score' = score]_vars

\* C1 witness: a click was rejected after the second game of a session ended,
\* one game won by X and one drawn.
C1_Witness ==
    /\ gameOver
    /\ last.op = "click" /\ ~last.accepted
    /\ score = [X |-> 1, O |-> 0, Draw |-> 1]

\* C2: while the game is over, a step that is no start or restart leaves the
\* board as it is, and no computer move is pending that could write it.
C2_BoardFrozenWhenOver ==
    [][gameOver => /\ timeouts = {}
                   /\ (~IsReset(last') => board' = board)]_vars

\* C2 witness: a click on an empty square was rejected because the game is over.
C2_Witness ==
    /\ gameOver
    /\ last.op = "click" /\ ~last.accepted /\ ~last.occupied

\* C3: a start or restart leaves no computer move pending (a pending one is
\* cleared), and a computer move that fires writes the current board plus
\* exactly one O.
C3_NoStaleComputerMove ==
    [][/\ (IsReset(last') => timeouts' = {})
       /\ (last'.op = "timer" => PlusOne(board, board', PLAYER_O))]_vars

\* C3 witness: a restart was dispatched while a computer move was pending.
C3_Witness ==
    /\ last.op = "restart" /\ last.pending
    /\ timeouts = {}

\* C4: a click on an occupied square changes none of Board, Turn, game-over
\* flag, status message, Score.
C4_OccupiedClickNoOp ==
    [][(last'.op = "click" /\ last'.occupied)
       => UNCHANGED <<board, xIsNext, gameOver, status, score>>]_vars

\* C4 witness: a click on an occupied square of a game in progress.
C4_Witness ==
    /\ last.op = "click" /\ last.occupied
    /\ gameStarted /\ ~gameOver

\* C5: in SINGLE_PLAYER mode a click while O is to move changes nothing, and
\* no click turns a square into O.
C5_NoHumanMoveOnComputerTurn ==
    [][(last'.op = "click" /\ mode = SINGLE_PLAYER)
       => /\ (~xIsNext => UNCHANGED engineVars)
          /\ \A i \in 1 .. 9 : board'[i] = PLAYER_O => board[i] = PLAYER_O]_vars

\* C5 witness: a click on an empty square of a SINGLE_PLAYER game in progress
\* was rejected while the computer's move was pending.
C5_Witness ==
    /\ last.op = "click" /\ ~last.accepted /\ ~last.occupied /\ last.pending
    /\ mode = SINGLE_PLAYER /\ gameStarted /\ ~gameOver /\ ~xIsNext

\* C6: startGame with a mode of MODES leaves that mode, an empty board, X to
\* move, the game started and not over, and the score as it was.
C6_StartResets ==
    [][(last'.op = "start" /\ last'.mode \in MODES)
       => /\ mode' = last'.mode
          /\ board' = getInitialBoard
          /\ xIsNext'
          /\ ~gameOver'
          /\ gameStarted'
          /\ score' = score]_vars

\* C6 witness: a game was started from a finished game whose score is not zero.
C6_Witness ==
    /\ last.op = "start"
    /\ ScoreTotal > 0
    /\ board = getInitialBoard /\ ~gameOver

\* C7: restartGame in a started game leaves an empty board, X to move, the
\* game not over, and Mode and Score as they were; after scenario A and a
\* restart the score is X:1, O:0, Draw:0.
C7_RestartKeepsModeAndScore ==
    [][/\ (last'.op = "restart" /\ gameStarted)
          => /\ board' = getInitialBoard
             /\ xIsNext'
             /\ ~gameOver'
             /\ gameStarted'
             /\ mode' = mode
             /\ score' = score
       /\ played' = ScenarioC
          => /\ score' = [X |-> 1, O |-> 0, Draw |-> 0]
             /\ board' = getInitialBoard /\ xIsNext' /\ ~gameOver']_vars

\* C7 witness: scenario A followed by a restart has been played.
C7_Witness == played = ScenarioC

\* C8 (as claimed): restartGame before any game was started changes no
\* component of the engine state, the status message included.
C8_RestartBeforeStartNoOp ==
    [][(last'.op = "restart" /\ ~gameStarted) => UNCHANGED engineVars]_vars

\* C9 (as claimed): startGame with a value outside MODES changes none of Mode,
\* Board, Turn, started flag, game-over flag, Score.
C9_InvalidModeNoOp ==
    [][(last'.op = "start" /\ last'.mode \notin MODES)
       => UNCHANGED <<mode, board, xIsNext, gameStarted, gameOver, score>>]_vars

\* C10: after scenario A the game is won by X, the winning line is 0,1,2 and
\* the score is X:1, O:0, Draw:0.
C10_ScenarioA ==
    played = ScenarioA
    => /\ gameOver
       /\ calculateWinner(board) = PLAYER_X
       /\ status = MsgPlayerXWins
       /\ boardWinnerSquares(board) = <<0, 1, 2>>
       /\ score = [X |-> 1, O |-> 0, Draw |-> 0]

\* C10 witness: scenario A has been played to its last move.
C10_Witness ==
    /\ played = ScenarioA
    /\ board = <<PLAYER_X, PLAYER_X, PLAYER_X, PLAYER_O, PLAYER_O,
                 null, null, null, null>>

\* C11 (as claimed): after scenario B the board reads X,O,X,O,X,O,O,X,O with
\* no line complete, the game is drawn and Score.Draw is 1.
C11_ScenarioBDrawn ==
    played = ScenarioB
    => /\ board = <<PLAYER_X, PLAYER_O, PLAYER_X, PLAYER_O, PLAYER_X,
                    PLAYER_O, PLAYER_O, PLAYER_X, PLAYER_O>>
       /\ calculateWinner(board) = null
       /\ gameOver
       /\ status = MsgDraw
       /\ score.Draw = 1

\* C11 (amended): in scenario B the seventh click (square 6) completes the
\* line 2,4,6 for X; the clicks on 7 and 8 are rejected, so the scenario ends
\* with the board X,O,X,O,X,O,X,empty,empty, the game won by X and the score
\* X:1, O:0, Draw:0.
C11_ScenarioBWonByX ==
    played = ScenarioB
    => /\ board = <<PLAYER_X, PLAYER_O, PLAYER_X, PLAYER_O, PLAYER_X,
                    PLAYER_O, PLAYER_X, null, null>>
       /\ gameOver
       /\ status = MsgPlayerXWins
       /\ boardWinnerSquares(board) = <<2, 4, 6>>
       /\ score = [X |-> 1, O |-> 0, Draw |-> 0]

\* C11 witness: scenario B has been played to its last click, which was
\* rejected.
C11_Witness ==
    /\ played = ScenarioB
    /\ last.op = "click" /\ ~last.accepted

\* Number of squares of board b that hold symbol s.
Count(b, s) == Cardinality({i \in 1 .. Len(b) : b[i] = s})
Other(s) == IF s = PLAYER_X THEN PLAYER_O ELSE PLAYER_X
LineSet(line) == {line[1] + 1, line[2] + 1, line[3] + 1}

\* Symbol s holds exactly the three squares of line, and the other symbol
\* completes no line.
ExactlyOnLine(b, s, line) ==
    /\ {i \in 1 .. 9 : b[i] = s} = LineSet(line)
    /\ \A j \in 1 .. 8 :
          {b[i] : i \in LineSet(lines[j])} # {Other(s)}

\* C12: for each line L and symbol S, on every board where S holds exactly the
\* squares of L and the other symbol completes no line, the winner found is S
\* and the winning line is L (and resolving that board ends the game with
\* S's counter at 1).
C12_LineWins ==
    \A k \in 1 .. 8 : \A s \in {PLAYER_X, PLAYER_O} :
        ExactlyOnLine(board, s, lines[k])
        => /\ calculateWinner(board) = s
           /\ boardWinnerSquares(board) = lines[k]
           /\ (last.op = "resolve"
               => gameOver /\ score = [ZeroScore EXCEPT ![s] = 1])

\* C12 witness: a full board with O on exactly the diagonal 2,4,6 and X on the
\* other six squares (no X line) has been resolved.
C12_Witness ==
    /\ last.op = "resolve"
    /\ board = <<PLAYER_X, PLAYER_X, PLAYER_O, PLAYER_X, PLAYER_O,
                 PLAYER_X, PLAYER_O, PLAYER_X, PLAYER_X>>
    /\ ExactlyOnLine(board, PLAYER_O, lines[8])

\* C13 (as claimed): every board of nine cells with fewer than 5 placed
\* symbols has no winner.
C13_FewerThanFiveNoWinner ==
    (Count(board, PLAYER_X) + Count(board, PLAYER_O) < 5)
    => calculateWinner(board) = null

\* C13 (amended): every board of nine cells with fewer than 5 placed symbols
\* on which the number of X equals the number of O or exceeds it by one has
\* no winner (and resolving it leaves the game in progress, score untouched).
C13_FewerThanFiveBalancedNoWinner ==
    (/\ Count(board, PLAYER_X) + Count(board, PLAYER_O) < 5
     /\ Count(board, PLAYER_X) - Count(board, PLAYER_O) \in {0, 1})
    => /\ calculateWinner(board) = null
       /\ (last.op = "resolve" => ~gameOver /\ score = ZeroScore)

\* C13 witness: a board with two X in the top row and two O in the middle row
\* has been resolved.
C13_Witness ==
    /\ last.op = "resolve"
    /\ board = <<PLAYER_X, PLAYER_X, null, PLAYER_O, PLAYER_O,
                 null, null, null, null>>

\* board b with O on its lowest empty square.
LowestFill(b) ==
    LET i == CHOOSE i \in 1 .. 9 : b[i] = null /\ \A j \in 1 .. (i - 1) : b[j] # null
    IN  [b EXCEPT ![i] = PLAYER_O]

\* C14 (as claimed), for the human clicks start(SINGLE_PLAYER), 0, 2: once
\* these clicks are dispatched and no computer move is pending, the engine
\* state is the one of the run in which the timer fires before the next click
\* (board X,O,X,O, X to move), whatever the interleaving was.
C14_SameStateAnyInterleaving ==
    (played = ScenarioD /\ timeouts = {})
    => /\ board = <<PLAYER_X, PLAYER_O, PLAYER_X, PLAYER_O, null,
                    null, null, null, null>>
       /\ xIsNext /\ ~gameOver /\ score = ZeroScore

\* C14 (amended): with the lowest-empty-index policy every computer move puts
\* O on the lowest empty square of the current board, so the run is fixed by
\* the sequence of events with the timer firings in it; for the human clicks
\* start(SINGLE_PLAYER), 0, 2 alone it ends in one of two states: the click
\* on 2 is dropped when it is dispatched while the computer's move is pending.
C14_ReproduciblePerInterleaving ==
    [][/\ (last'.op = "timer"
           => /\ \E i \in 1 .. 9 : board[i] = null
              /\ board' = LowestFill(board))
       /\ (played' = ScenarioD /\ timeouts' = {})
           => \/ board' = <<PLAYER_X, PLAYER_O, PLAYER_X, PLAYER_O, null,
                            null, null, null, null>>
              \/ board' = <<PLAYER_X, PLAYER_O, null, null, null,
                            null, null, null, null>>]_vars

\* C14 witness: the click on 2 was dropped and the timer then fired.
C14_Witness ==
    /\ played = ScenarioD
    /\ last.op = "timer"
    /\ board = <<PLAYER_X, PLAYER_O, null, null, null, null, null, null, null>>

\* C15: the board holds as many X as O, or one X more; and while a game is in
\* progress X is to move exactly when the counts are equal.
C15_CountsAndTurn ==
    LET x == Count(board, PLAYER_X)
        o == Count(board, PLAYER_O)
    IN  /\ x = o \/ x = o + 1
        /\ (gameStarted /\ ~gameOver) => (xIsNext <=> x = o)

\* C15 witness: a single-player game in progress after X's third move, the
\* computer to move.
C15_Witness ==
    /\ mode = SINGLE_PLAYER /\ gameStarted /\ ~gameOver /\ ~xIsNext
    /\ last.op = "click" /\ last.accepted
    /\ Count(board, PLAYER_X) = 3 /\ Count(board, PLAYER_O) = 2

\* C16 (as claimed): every accepted move, the one that ends the game
\* included, flips the turn; a rejected move leaves it.
C16_EveryAcceptedMoveFlips ==
    [][IsMove(last')
       => IF last'.accepted THEN xIsNext' = ~xIsNext
          ELSE xIsNext' = xIsNext]_vars

\* C16 (amended): an accepted move that leaves the game in progress flips the
\* turn; an accepted move that ends the game, and a rejected move, leave it.
C16_FlipUnlessGameEnds ==
    [][IsMove(last')
       => IF last'.accepted /\ ~gameOver' THEN xIsNext' = ~xIsNext
          ELSE xIsNext' = xIsNext]_vars

\* C16 witness: the computer's move ended the game and O is still to move.
C16_Witness ==
    /\ gameOver /\ ~xIsNext
    /\ last.op = "timer" /\ last.accepted

\* A single-player game in progress with the computer to move.
ComputerToMove == mode = SINGLE_PLAYER /\ gameStarted /\ ~gameOver /\ ~xIsNext

\* C17: in a single-player game in progress with O to move, the computer's
\* move is eventually applied unless a start or restart intervenes; and it is
\* applied once: at most one timeout is pending, its firing places exactly
\* one O, and it leaves X to move or the game over with no timeout pending.
C17_ComputerMovesOnce ==
    /\ ComputerToMove ~> (IsReset(last) \/ (last.op = "timer" /\ last.accepted))
    /\ [][/\ Cardinality(timeouts) <= 1
          /\ (last'.op = "timer"
              => /\ ComputerToMove
                 /\ PlusOne(board, board', PLAYER_O)
                 /\ xIsNext' \/ gameOver'
                 /\ timeouts' = {})]_vars

\* C17 witness: the computer's move was applied and X is to move again.
C17_Witness ==
    /\ mode = SINGLE_PLAYER /\ gameStarted /\ ~gameOver /\ xIsNext
    /\ last.op = "timer" /\ last.accepted
    /\ Count(board, PLAYER_O) = 2

\* C18: a computer move fires only in a single-player game in progress with O
\* to move; every such state has an empty square, so the move is never the
\* early return, and it turns one empty square into O.
C18_ComputerMoveHasRoom ==
    [][/\ (ComputerToMove => \E i \in 1 .. 9 : board[i] = null)
       /\ (last'.op = "timer"
           => /\ ComputerToMove
              /\ last'.accepted
              /\ PlusOne(board, board', PLAYER_O))]_vars

\* C18 witness: the computer took one of the last two empty squares.
C18_Witness ==
    /\ last.op = "timer" /\ last.accepted
    /\ Count(board, PLAYER_X) = 4 /\ Count(board, PLAYER_O) = 4

\* The message of a game won by w in mode m.
WinMessage(m, w) ==
    IF m = SINGLE_PLAYER
    THEN (IF w = PLAYER_X THEN MsgYouWin ELSE MsgComputerWins)
    ELSE (IF w = PLAYER_X THEN MsgPlayerXWins ELSE MsgPlayerOWins)

\* The game-over flag and the status agree with the current board.
OverAsBoardSays ==
    /\ gameStarted
       => (gameOver <=> (calculateWinner(board) # null \/ everyCellFilled(board)))
    /\ gameOver
       => status = (IF calculateWinner(board) # null
                    THEN WinMessage(mode, calculateWinner(board))
                    ELSE MsgDraw)

\* C19: in a started game the game is over exactly when the board has a
\* complete line or no empty square; it is won (winner's message, winner's
\* counter + 1, Draw counter untouched) whenever a line is complete, also on a
\* full board, and drawn (Draw counter + 1) only on a full board with no line.
C19_OverIffBoardDecided ==
    [][/\ OverAsBoardSays'
       /\ (~gameOver /\ gameOver')
          => IF calculateWinner(board') # null
             THEN score' = [score EXCEPT ![calculateWinner(board')] = @ + 1]
             ELSE /\ everyCellFilled(board')
                  /\ score' = [score EXCEPT !.Draw = @ + 1]]_vars

\* C19 witness: X won with the move that filled the last empty square.
C19_Witness ==
    /\ gameOver /\ everyCellFilled(board)
    /\ calculateWinner(board) = PLAYER_X
    /\ status = MsgPlayerXWins
    /\ score = [X |-> 1, O |-> 0, Draw |-> 0]

\* C20 (as claimed): for any index passed to handleSquareClick the board stays
\* an array of exactly nine cells, each empty, X or O; except at a start or
\* restart a cell only changes from empty to X or O; and an accepted move
\* changes exactly one cell.
C20_NineCellsAnyIndex ==
    [][/\ Len(board') = 9
       /\ \A i \in 1 .. 9 : board'[i] \in Cells
       /\ ~IsReset(last')
          => \A i \in 1 .. 9 :
                board'[i] # board[i]
                => board[i] = null /\ board'[i] \in {PLAYER_X, PLAYER_O}
       /\ (IsMove(last') /\ last'.accepted)
          => Cardinality({i \in 1 .. 9 : board'[i] # board[i]}) = 1]_vars

====
